---- MODULE Spec2Model ----
(***************************************************************************)
(* A model of degoogle_mbox.py: the date interpretation (parse_date,       *)
(* fix_date) and the two-pass mailbox rewrite (fix_dates_in_mbox).         *)
(*                                                                         *)
(* Text is a sequence of one-character strings.  Python's None is the      *)
(* empty tuple None and a present value v is the one-element tuple <<v>>.  *)
(***************************************************************************)
EXTENDS Integers, Sequences, FiniteSets, TLC

VARIABLES
  pc,                     \* position in fix_dates_in_mbox (or in the function under test)
  content,                \* the input file's text (line 76)
  fixed_from_lines,       \* line 79
  temp,                   \* the temporary file: None when it does not exist, else <<text>>
  messages,               \* blocks of the re.split result not yet visited (line 87)
  blocks,                 \* blocks that passed the whitespace test of line 90, in order
  msg_content,            \* the block of the current iteration (line 89)
  from_addr,              \* line 99
  date_str,               \* the Date header read at line 96 (None or <<text>>)
  date,                   \* fix_date's result (line 103; None or <<datetime>>)
  env_date,               \* date_str as rebound at lines 105-109
  mbox,                   \* messages of mailbox.mbox(temp_name) not yet visited (line 116)
  before,                 \* the message of the current second-pass iteration as it was read
  fixed_messages,         \* line 117
  total,                  \* line 118
  fixed_dates,            \* line 119
  removed_google_headers, \* line 120
  preserved_threading,    \* line 121
  output,                 \* the output mailbox: None until it is written
  error                   \* the exception raised out of fix_dates_in_mbox, or "none"

vars == <<pc, content, fixed_from_lines, temp, messages, blocks, msg_content,
          from_addr, date_str, date, env_date, mbox, before, fixed_messages,
          total, fixed_dates, removed_google_headers, preserved_threading,
          output, error>>

None == <<>>
Some(v) == <<v>>


(***************************************************************************)
(* Characters and text                                                     *)
(***************************************************************************)
DigitSeq == <<"0","1","2","3","4","5","6","7","8","9">>
LowerSeq == <<"a","b","c","d","e","f","g","h","i","j","k","l","m",
              "n","o","p","q","r","s","t","u","v","w","x","y","z">>
UpperSeq == <<"A","B","C","D","E","F","G","H","I","J","K","L","M",
              "N","O","P","Q","R","S","T","U","V","W","X","Y","Z">>
Range(f) == {f[i] : i \in DOMAIN f}
Digit == Range(DigitSeq)
LowerCase == Range(LowerSeq)
UpperCase == Range(UpperSeq)
\* \w, \s and [/-] of the patterns
WordChar == Digit \cup LowerCase \cup UpperCase \cup {"_"}
SpaceChar == {" ", "\t", "\n", "\r"}
DateSep == {"/", "-"}

DigitVal(c) == CHOOSE n \in 0..9 : DigitSeq[n + 1] = c
\* the letter of table to at the place c has in table from; c itself when not in from
Recase(c, from, to) ==
  IF \E i \in DOMAIN from : from[i] = c THEN to[CHOOSE i \in DOMAIN from : from[i] = c]
  ELSE c
LowerChar(c) == Recase(c, UpperSeq, LowerSeq)
UpperChar(c) == Recase(c, LowerSeq, UpperSeq)
\* str.lower(), str.upper()
Lower(s) == [i \in DOMAIN s |-> LowerChar(s[i])]
Upper(s) == [i \in DOMAIN s |-> UpperChar(s[i])]

AllIn(s, cs) == \A i \in DOMAIN s : s[i] \in cs

\* s[a..b], empty when b < a
Sub(s, a, b) == IF b < a THEN <<>> ELSE SubSeq(s, a, b)

\* str.startswith
StartsWith(s, p) == Len(s) >= Len(p) /\ Sub(s, 1, Len(p)) = p

\* the least and the greatest of a set of positions, 0 for the empty set
Least(S) == IF S = {} THEN 0 ELSE CHOOSE x \in S : \A y \in S : x <= y
Greatest(S) == IF S = {} THEN 0 ELSE CHOOSE x \in S : \A y \in S : x >= y
\* the first position from pos on of a character that is in cs, or is not; 0 for none
FirstIn(s, cs, pos) == Least({i \in pos..Len(s) : s[i] \in cs})
FirstOut(s, cs, pos) == Least({i \in pos..Len(s) : s[i] \notin cs})
\* the last position up to pos of a character that is not in cs, 0 for none
LastOut(s, cs, pos) == Greatest({i \in 1..pos : s[i] \notin cs})

\* the length of the longest run of characters of cs in s from pos on; stop is
\* the first position after the run
RunTo(s, pos, stop) == IF stop = 0 THEN Len(s) + 1 - pos ELSE stop - pos
RunLen(s, pos, cs) == IF pos > Len(s) THEN 0 ELSE RunTo(s, pos, FirstOut(s, cs, pos))

\* str.lstrip(cs), str.rstrip(cs), str.strip()
LStrip(s, cs) == Sub(s, RunLen(s, 1, cs) + 1, Len(s))
RStrip(s, cs) == Sub(s, 1, LastOut(s, cs, Len(s)))
Strip(s) == RStrip(LStrip(s, SpaceChar), SpaceChar)

\* str.find(c), str.rfind(c): the first and the last index of c (1-based), 0
\* when absent
Find(s, c) == FirstIn(s, {c}, 1)
RFind(s, c) == Greatest({i \in DOMAIN s : s[i] = c})

\* str.split(c) on a one-character separator: every field, empty ones too.
\* The field from start on ends before the separator at i (0: at the end).
RECURSIVE FieldsFrom(_, _, _)
FieldTo(s, c, start, i) ==
  IF i = 0 THEN <<Sub(s, start, Len(s))>>
  ELSE <<Sub(s, start, i - 1)>> \o FieldsFrom(s, c, i + 1)
FieldsFrom(s, c, start) == FieldTo(s, c, start, FirstIn(s, {c}, start))
SplitOn(s, c) == FieldsFrom(s, c, 1)

\* str.split(): the maximal runs of non-whitespace.  The run that starts at
\* start (0: no more runs) ends before the whitespace at i (0: at the end).
RECURSIVE WordsFrom(_, _)
WordTo(s, start, i) ==
  IF i = 0 THEN <<Sub(s, start, Len(s))>>
  ELSE <<Sub(s, start, i - 1)>> \o WordsFrom(s, i)
WordAt(s, start) == IF start = 0 THEN <<>> ELSE WordTo(s, start, FirstIn(s, SpaceChar, start))
WordsFrom(s, pos) == WordAt(s, FirstOut(s, SpaceChar, pos))
SplitWs(s) == WordsFrom(s, 1)

\* the texts of a sequence, joined
RECURSIVE Concat(_)
Concat(ts) == IF ts = <<>> THEN <<>> ELSE Head(ts) \o Concat(Tail(ts))

\* the digits of an all-digit text, as a number
RECURSIVE DigitsVal(_)
DigitsVal(s) ==
  IF s = <<>> THEN 0
  ELSE DigitsVal(Sub(s, 1, Len(s) - 1)) * 10 + DigitVal(s[Len(s)])

\* int(s), for the texts the date code gives it (no whitespace around the
\* number): an optional sign, then digits, with single underscores allowed
\* between digits.  None stands for the ValueError.  IntOf is for numbers of at
\* most nine digits; NumClass tells the longer ones apart.
Unsign(s) == IF s # <<>> /\ s[1] \in {"+", "-"} THEN Tail(s) ELSE s
DigitsOk(body) ==
  /\ body # <<>>
  /\ \A i \in DOMAIN body :
       \/ body[i] \in Digit
       \/ /\ body[i] = "_" /\ i > 1 /\ i < Len(body)
          /\ body[i - 1] \in Digit /\ body[i + 1] \in Digit
IsInt(s) == DigitsOk(Unsign(s))
OnlyDigits(body) == SelectSeq(body, LAMBDA c : c \in Digit)
Signed(sign, body) ==
  IF DigitsOk(body) THEN Some(sign * DigitsVal(OnlyDigits(body))) ELSE None
IntOf(s) ==
  IF s = <<>> THEN None
  ELSE IF s[1] = "-" THEN Signed(0 - 1, Tail(s))
  ELSE IF s[1] = "+" THEN Signed(1, Tail(s))
  ELSE Signed(1, s)

\* the digits of a number from its first digit that is not 0
FromPlace(d, i) == IF i = 0 THEN <<>> ELSE Sub(d, i, Len(d))
Significant(d) == FromPlace(d, FirstOut(d, {"0"}, 1))
\* whether the number of digits d is greater than the number of digits limit
\* (neither has leading zeros)
Exceeds(d, limit) ==
  \/ Len(d) > Len(limit)
  \/ /\ Len(d) = Len(limit)
     /\ \E i \in DOMAIN d : /\ DigitVal(d[i]) > DigitVal(limit[i])
                             /\ \A j \in 1..(i - 1) : d[j] = limit[j]
\* the digits of the greatest and of the least C int
CIntMax == <<"2","1","4","7","4","8","3","6","4","7">>
CIntMin == <<"2","1","4","7","4","8","3","6","4","8">>
\* the size of the number of digits d: "small" has at most nine digits,
\* "overflow" is beyond limit, "range" is between the two
ClassOf(d, limit) ==
  IF Len(d) <= 9 THEN "small" ELSE IF Exceeds(d, limit) THEN "overflow" ELSE "range"
\* the size of int(s) as an argument of datetime(): "overflow" does not fit a
\* C int (OverflowError), "range" fits one but is no field of a date (ValueError)
NumClass(s) ==
  ClassOf(Significant(OnlyDigits(Unsign(s))), IF s[1] = "-" THEN CIntMin ELSE CIntMax)

\* a number in decimal, left-padded with zeros to at least w digits
RECURSIVE Dec(_, _)
Dec(n, w) ==
  IF n < 10 /\ w <= 1 THEN <<DigitSeq[n + 1]>>
  ELSE Dec(n \div 10, w - 1) \o <<DigitSeq[(n % 10) + 1]>>

(***************************************************************************)
(* A backtracking matcher for the regular expressions of the program.      *)
(* A pattern is a sequence of elements.  Rep(cs, lo, hi, g) is cs{lo,hi},  *)
(* greedy (hi = -1: unbounded); Alt(alts, g) tries its alternatives in     *)
(* order, each a sequence of character sets.  g says whether the element   *)
(* is a capturing group.  StartOrNl is (?:^|\n) and NlOrEnd is (?:\n|$),   *)
(* where $ is the end of the text or the place before its last newline.    *)
(***************************************************************************)
Rep(cs, lo, hi, g) == [kind |-> "rep", cs |-> cs, lo |-> lo, hi |-> hi, g |-> g]
Alt(alts, g) == [kind |-> "alt", alts |-> alts, g |-> g]
Lit(c) == [kind |-> "rep", cs |-> {c}, lo |-> 1, hi |-> 1, g |-> FALSE]
StartOrNl == [kind |-> "start", g |-> FALSE]
NlOrEnd == [kind |-> "end", g |-> FALSE]

AltMatches(alt, s, pos) ==
  /\ pos + Len(alt) - 1 <= Len(s)
  /\ \A i \in DOMAIN alt : s[pos + i - 1] \in alt[i]

\* the lengths element e can take at pos, in the order a backtracking matcher tries them
RECURSIVE AltLens(_, _, _, _)
AltLens(alts, i, s, pos) ==
  IF i > Len(alts) THEN <<>>
  ELSE (IF AltMatches(alts[i], s, pos) THEN <<Len(alts[i])>> ELSE <<>>)
       \o AltLens(alts, i + 1, s, pos)
\* from the longest run the bounds allow down to lo
RepLens(lo, hi, run) ==
  IF run < lo THEN <<>>
  ELSE IF hi >= 0 /\ hi < run THEN [i \in 1..(hi - lo + 1) |-> hi - i + 1]
  ELSE [i \in 1..(run - lo + 1) |-> run - i + 1]
NlLen(s, pos) == IF pos <= Len(s) /\ s[pos] = "\n" THEN <<1>> ELSE <<>>
ElemLens(e, s, pos) ==
  IF e.kind = "rep" THEN RepLens(e.lo, e.hi, RunLen(s, pos, e.cs))
  ELSE IF e.kind = "alt" THEN AltLens(e.alts, 1, s, pos)
  ELSE IF e.kind = "start" THEN (IF pos = 1 THEN <<0>> ELSE <<>>) \o NlLen(s, pos)
  ELSE NlLen(s, pos)
       \o (IF pos = Len(s) + 1 \/ (pos = Len(s) /\ s[pos] = "\n") THEN <<0>> ELSE <<>>)

\* the match of elements k.. of re at pos: None, or <<[end, groups]>>: end is the
\* position after the match and groups the captured texts in order.  ReTry
\* goes through the lengths element k can take; ReTaken has the match r of the
\* elements after k for the length lens[i].
RECURSIVE ReMatchAt(_, _, _, _)
RECURSIVE ReTry(_, _, _, _, _, _)
RECURSIVE ReTaken(_, _, _, _, _, _, _)
ReTaken(re, k, s, pos, lens, i, r) ==
  IF r = None THEN ReTry(re, k, s, pos, lens, i + 1)
  ELSE IF re[k].g
  THEN Some([end |-> r[1].end,
             groups |-> <<Sub(s, pos, pos + lens[i] - 1)>> \o r[1].groups])
  ELSE r
ReTry(re, k, s, pos, lens, i) ==
  IF i > Len(lens) THEN None
  ELSE ReTaken(re, k, s, pos, lens, i, ReMatchAt(re, k + 1, s, pos + lens[i]))
ReMatchAt(re, k, s, pos) ==
  IF k > Len(re) THEN Some([end |-> pos, groups |-> <<>>])
  ELSE ReTry(re, k, s, pos, ElemLens(re[k], s, pos), 1)

\* re.search: the match at the leftmost position that has one
ReHit(pos, r) == Some([start |-> pos, end |-> r[1].end, groups |-> r[1].groups])
ReAt(re, s, pos) == IF pos = 0 THEN None ELSE ReHit(pos, ReMatchAt(re, 1, s, pos))
ReSearchFrom(re, s, pos) ==
  ReAt(re, s, Least({p \in pos..(Len(s) + 1) : ReMatchAt(re, 1, s, p) # None}))
ReSearch(re, s) == ReSearchFrom(re, s, 1)

(***************************************************************************)
(* Calendar: datetime.datetime, as far as the program uses it.  A datetime *)
(* is a record; tz is None (naive) or <<offset from UTC in seconds>>.      *)
(***************************************************************************)
IsLeap(y) == y % 4 = 0 /\ (y % 100 # 0 \/ y % 400 = 0)
DaysInMonth(y, m) ==
  IF m = 2 THEN (IF IsLeap(y) THEN 29 ELSE 28)
  ELSE IF m \in {4, 6, 9, 11} THEN 30 ELSE 31

\* datetime(...): None stands for the ValueError of a field out of range
MakeDatetime(y, m, d, hh, mi, ss, tz) ==
  IF /\ y \in 1..9999 /\ m \in 1..12 /\ d >= 1 /\ d <= DaysInMonth(y, m)
     /\ hh \in 0..23 /\ mi \in 0..59 /\ ss \in 0..59
     /\ (tz = None \/ (tz[1] > 0 - 86400 /\ tz[1] < 86400))
  THEN Some([year |-> y, month |-> m, day |-> d,
             hour |-> hh, minute |-> mi, second |-> ss, tz |-> tz])
  ELSE None

UTC == Some(0)
\* dt.replace(tzinfo=timezone.utc) on a datetime that has none (lines 35-36, 67)
AsUtc(dt) == IF dt = None THEN None ELSE Some([dt[1] EXCEPT !.tz = UTC])
\* lines 35-37: a naive result is taken as UTC
NaiveAsUtc(dt) == IF dt # None /\ dt[1].tz = None THEN AsUtc(dt) ELSE dt

\* date.toordinal(): 1 for 0001-01-01
DaysBeforeYear(y) == (y - 1) * 365 + (y - 1) \div 4 - (y - 1) \div 100 + (y - 1) \div 400
RECURSIVE DaysBeforeMonth(_, _)
DaysBeforeMonth(y, m) ==
  IF m = 1 THEN 0 ELSE DaysBeforeMonth(y, m - 1) + DaysInMonth(y, m - 1)
Ordinal(y, m, d) == DaysBeforeYear(y) + DaysBeforeMonth(y, m) + d
\* date.weekday(): Monday is 0
Weekday(y, m, d) == (Ordinal(y, m, d) + 6) % 7

DayAbbr == << <<"M","o","n">>, <<"T","u","e">>, <<"W","e","d">>, <<"T","h","u">>,
              <<"F","r","i">>, <<"S","a","t">>, <<"S","u","n">> >>
MonthAbbr == << <<"J","a","n">>, <<"F","e","b">>, <<"M","a","r">>, <<"A","p","r">>,
                <<"M","a","y">>, <<"J","u","n">>, <<"J","u","l">>, <<"A","u","g">>,
                <<"S","e","p">>, <<"O","c","t">>, <<"N","o","v">>, <<"D","e","c">> >>

(***************************************************************************)
(* email.utils.parsedate_to_datetime (called at line 18), after the        *)
(* library's _parsedate_tz.  Each step of the library's function is an     *)
(* operator that takes what the steps before it computed.                  *)
(***************************************************************************)
\* _monthnames: the abbreviations, then the full names
MonthNames ==
  << <<"j","a","n">>, <<"f","e","b">>, <<"m","a","r">>, <<"a","p","r">>, <<"m","a","y">>,
     <<"j","u","n">>, <<"j","u","l">>, <<"a","u","g">>, <<"s","e","p">>, <<"o","c","t">>,
     <<"n","o","v">>, <<"d","e","c">>,
     <<"j","a","n","u","a","r","y">>, <<"f","e","b","r","u","a","r","y">>,
     <<"m","a","r","c","h">>, <<"a","p","r","i","l">>, <<"m","a","y">>,
     <<"j","u","n","e">>, <<"j","u","l","y">>, <<"a","u","g","u","s","t">>,
     <<"s","e","p","t","e","m","b","e","r">>, <<"o","c","t","o","b","e","r">>,
     <<"n","o","v","e","m","b","e","r">>, <<"d","e","c","e","m","b","e","r">> >>
\* _daynames
DayNames == { <<"m","o","n">>, <<"t","u","e">>, <<"w","e","d">>, <<"t","h","u">>,
              <<"f","r","i">>, <<"s","a","t">>, <<"s","u","n">> }
\* _timezones
Timezones ==
  << [n |-> <<"U","T">>, off |-> 0], [n |-> <<"U","T","C">>, off |-> 0],
     [n |-> <<"G","M","T">>, off |-> 0], [n |-> <<"Z">>, off |-> 0],
     [n |-> <<"A","S","T">>, off |-> 0 - 400], [n |-> <<"A","D","T">>, off |-> 0 - 300],
     [n |-> <<"E","S","T">>, off |-> 0 - 500], [n |-> <<"E","D","T">>, off |-> 0 - 400],
     [n |-> <<"C","S","T">>, off |-> 0 - 600], [n |-> <<"C","D","T">>, off |-> 0 - 500],
     [n |-> <<"M","S","T">>, off |-> 0 - 700], [n |-> <<"M","D","T">>, off |-> 0 - 600],
     [n |-> <<"P","S","T">>, off |-> 0 - 800], [n |-> <<"P","D","T">>, off |-> 0 - 700] >>

\* the first place of x in sequence t, 0 when absent
PlaceOf(t, x) == Least({i \in DOMAIN t : t[i] = x})
\* the first entry of the zone table for name tz, 0 when absent
ZonePlace(table, tz) == Least({i \in DOMAIN table : table[i].n = tz})

DropComma(s) == IF s # <<>> /\ s[Len(s)] = "," THEN Sub(s, 1, Len(s) - 1) ELSE s

\* The zone of a date is [kind, secs]: kind "none" (no offset), "secs" (the
\* offset in seconds), "range" (an offset timezone() refuses with ValueError)
\* or "overflow" (one timedelta() refuses with OverflowError).
NoZone == [kind |-> "none", secs |-> 0]
\* tzsign * ((tzoffset // 100) * 3600 + (tzoffset % 100) * 60), for a tzoffset
\* of at most four digits; a longer one is a day or more
ZoneSeconds(tzsign, tzoffset) ==
  IF tzoffset >= 10000 THEN [kind |-> "range", secs |-> 0]
  ELSE [kind |-> "secs",
        secs |-> tzsign * ((tzoffset \div 100) * 3600 + (tzoffset % 100) * 60)]
ZoneSigned(tzoffset) ==
  IF tzoffset < 0 THEN ZoneSeconds(0 - 1, 0 - tzoffset) ELSE ZoneSeconds(1, tzoffset)
\* Whether timedelta() refuses the seconds of the zone number of digits d: they
\* are more than 999999999 days.  East of UTC that is from 2399999999960 on;
\* west of it from 2399999997601 on, and from 2399999997561 to 2399999997599,
\* where the last two digits count for more than an hour.
ZoneEastMax == <<"2","3","9","9","9","9","9","9","9","9","9","5","9">>
ZoneWestMax == <<"2","3","9","9","9","9","9","9","9","7","6","0","0">>
ZoneWestGap == <<"2","3","9","9","9","9","9","9","9","7","5","6","0">>
ZoneWestGapEnd == <<"2","3","9","9","9","9","9","9","9","7","5","9","9">>
TooLong(d, west) ==
  IF west
  THEN Exceeds(d, ZoneWestMax) \/ (Exceeds(d, ZoneWestGap) /\ ~Exceeds(d, ZoneWestGapEnd))
  ELSE Exceeds(d, ZoneEastMax)
\* the size of the zone number of digits d
ZoneClass(d, west) ==
  IF Len(d) <= 9 THEN "small" ELSE IF TooLong(d, west) THEN "overflow" ELSE "range"
\* int(tz) when the zone is not a name of the table: no number is no offset,
\* and so is -0000; c is the size of the number
ZoneOfClass(tz, c) ==
  IF c = "small" THEN ZoneSigned(IntOf(tz)[1]) ELSE [kind |-> c, secs |-> 0]
ZoneNumber(tz) ==
  IF ~IsInt(tz) THEN NoZone
  ELSE IF tz[1] = "-" /\ Significant(OnlyDigits(tz)) = <<>> THEN NoZone
  ELSE ZoneOfClass(tz, ZoneClass(Significant(OnlyDigits(tz)), tz[1] = "-"))
ZoneLookup(table, tz, i) == IF i > 0 THEN ZoneSigned(table[i].off) ELSE ZoneNumber(tz)
\* the zone field's offset
ZoneFor(table, tz) == ZoneLookup(table, tz, ZonePlace(table, tz))
ZoneOffset(tz) == ZoneFor(Timezones, Upper(tz))

\* the texts thh, tmm, tss of the time field, or None
TimeSplit(tm, dotted) ==
  IF Len(tm) = 2 THEN Some(<<tm[1], tm[2], <<"0">> >>)
  ELSE IF Len(tm) = 3 THEN Some(tm)
  ELSE IF Len(tm) = 1 /\ Len(dotted) = 2 THEN Some(<<dotted[1], dotted[2], <<"0">> >>)
  ELSE IF Len(tm) = 1 /\ Len(dotted) = 3 THEN Some(dotted)
  ELSE None
TimeFields(tm) == TimeSplit(SplitOn(tm, ":"), SplitOn(tm, "."))

\* a year of fewer than three digits is of 1969..2068
FullYear(yy) == IF yy >= 100 THEN yy ELSE IF yy > 68 THEN yy + 1900 ELSE yy + 2000
\* the index of the month name, the full names counted like the abbreviations
MonthNumber(i) == IF i > 12 THEN i - 12 ELSE i

\* the worst of the sizes of the numbers
Worst(S) == IF "overflow" \in S THEN "overflow" ELSE IF "range" \in S THEN "range" ELSE "small"
\* the result once every field is a number: cls is the worst size of the five
\* numbers, and they are held as 0 unless all are small
DateOfClass(cls, yy, mm, dd, thh, tmm, tss, tz) ==
  IF cls = "small"
  THEN [cls |-> cls, yy |-> FullYear(IntOf(yy)[1]), mm |-> mm, dd |-> IntOf(dd)[1],
        hh |-> IntOf(thh)[1], mi |-> IntOf(tmm)[1], ss |-> IntOf(tss)[1],
        tz |-> ZoneOffset(tz)]
  ELSE [cls |-> cls, yy |-> 0, mm |-> mm, dd |-> 0, hh |-> 0, mi |-> 0, ss |-> 0,
        tz |-> ZoneOffset(tz)]
\* None when int() raised ValueError for one of the five texts
DateNumbers(yy, mm, dd, thh, tmm, tss, tz) ==
  IF IsInt(yy) /\ IsInt(dd) /\ IsInt(thh) /\ IsInt(tmm) /\ IsInt(tss)
  THEN Some(DateOfClass(Worst({NumClass(yy), NumClass(dd), NumClass(thh), NumClass(tmm),
                               NumClass(tss)}),
                        yy, mm, dd, thh, tmm, tss, tz))
  ELSE None
\* t is the split time field
DateWithTime(dd, mm, yy, t, tz) ==
  IF t = None THEN None ELSE DateNumbers(yy, mm, dd, t[1][1], t[1][2], t[1][3], tz)
\* a year that does not begin with a digit changes places with the zone
DateWithYear(dd, mm, yy, tm, tz) ==
  IF yy = <<>> THEN None
  ELSE DateWithTime(dd, mm, IF yy[1] \in Digit THEN yy ELSE tz,
                    TimeFields(DropComma(tm)), IF yy[1] \in Digit THEN tz ELSE yy)
\* a year with a colon in it changes places with the time
DateWithMonth(dd, mm, yy, tm, tz) ==
  DateWithYear(DropComma(dd), mm, DropComma(IF Find(yy, ":") > 1 THEN tm ELSE yy),
               IF Find(yy, ":") > 1 THEN yy ELSE tm, tz)
\* the month is the second field (at i in _monthnames) or, failing that, the
\* first (at j)
DateByMonth(i, j, dd, mm, yy, tm, tz) ==
  IF i = 0 /\ j = 0 THEN None
  ELSE DateWithMonth(IF i > 0 THEN dd ELSE mm, MonthNumber(IF i > 0 THEN i ELSE j),
                     yy, tm, tz)
DateFields(names, dd, mm, yy, tm, tz) ==
  DateByMonth(PlaceOf(names, mm), PlaceOf(names, Lower(dd)), dd, mm, yy, tm, tz)
\* the fields dd, mm, yy, tm, tz once the list has five entries
ParsedateFields(data) ==
  IF data[1] = <<>> \/ data[2] = <<>> \/ data[3] = <<>> THEN None
  ELSE DateFields(MonthNames, data[1], Lower(data[2]), data[3], data[4], data[5])

\* a day name in front is dropped, and so is what comes before the last comma
\* of the first field
DropDay(data) ==
  IF data = <<>> THEN data
  ELSE IF data[1][Len(data[1])] = "," \/ Lower(data[1]) \in DayNames THEN Tail(data)
  ELSE <<Sub(data[1], RFind(data[1], ",") + 1, Len(data[1]))>> \o Tail(data)
\* a list of three fields whose first has two dashes is an RFC 850 date
DashFields(data, stuff) == IF Len(stuff) = 3 THEN stuff \o Tail(data) ELSE data
SplitDashes(data) ==
  IF Len(data) = 3 THEN DashFields(data, SplitOn(data[1], "-")) ELSE data
\* a list of four fields has the zone glued to the time (at i), or no zone
ZoneAt(data, s, i) ==
  IF i > 1 THEN Sub(data, 1, 3) \o <<Sub(s, 1, i - 1), Sub(s, i, Len(s))>>
  ELSE data \o << <<>> >>
SplitZone(data) ==
  IF Len(data) = 4
  THEN ZoneAt(data, data[4], IF Find(data[4], "+") # 0 THEN Find(data[4], "+")
                             ELSE Find(data[4], "-"))
  ELSE data
FiveFields(data) == IF Len(data) < 5 THEN None ELSE ParsedateFields(data)

\* _parsedate_tz: None, or <<the fields>>
ParsedateTz(text) == FiveFields(SplitZone(SplitDashes(DropDay(SplitWs(text)))))

\* What a call did: [exc, val].  exc names the exception it raised, "none" for
\* a return of val.
Return(v) == [exc |-> "none", val |-> v]
Raise(e) == [exc |-> e, val |-> None]
\* datetime.datetime(...) as a call, ValueError for a field out of range
Construct(dt) == IF dt = None THEN Raise("ValueError") ELSE Return(dt)
\* datetime.datetime(*dtuple[:6], tzinfo=timezone(timedelta(seconds=tz))): the
\* offset is made first, then the arguments are taken as C ints, then the
\* fields are checked
DatetimeOf(p) ==
  IF p.tz.kind = "overflow" THEN Raise("OverflowError")
  ELSE IF p.tz.kind = "range" THEN Raise("ValueError")
  ELSE IF p.tz.kind = "secs" /\ (p.tz.secs <= 0 - 86400 \/ p.tz.secs >= 86400)
  THEN Raise("ValueError")
  ELSE IF p.cls = "overflow" THEN Raise("OverflowError")
  ELSE IF p.cls = "range" THEN Raise("ValueError")
  ELSE Construct(MakeDatetime(p.yy, p.mm, p.dd, p.hh, p.mi, p.ss,
                              IF p.tz.kind = "none" THEN None ELSE Some(p.tz.secs)))
\* parsedate_to_datetime: ValueError when _parsedate_tz returns None
Parsedate(p) == IF p = None THEN Raise("ValueError") ELSE DatetimeOf(p[1])
parsedate_to_datetime(text) == Parsedate(ParsedateTz(text))

(***************************************************************************)
(* datetime.strptime (called at line 34): each directive is the regular    *)
(* expression the library gives it, letters matched without regard to      *)
(* case; a blank of the format is \s+.  The fractional seconds of a %z     *)
(* offset ('.' and digits) are left out: no input of the model has them.   *)
(***************************************************************************)
D19 == {"1", "2", "3", "4", "5", "6", "7", "8", "9"}
D05 == {"0", "1", "2", "3", "4", "5"}
AnyCase(w) == [i \in DOMAIN w |-> {LowerChar(w[i]), UpperChar(w[i])}]
AnyCaseAll(ws) == [i \in DOMAIN ws |-> AnyCase(ws[i])]
DirY == Rep(Digit, 4, 4, TRUE)
Dirm == Alt(<< <<{"1"}, {"0", "1", "2"}>>, <<{"0"}, D19>>, <<D19>> >>, TRUE)
Dird == Alt(<< <<{"3"}, {"0", "1"}>>, <<{"1", "2"}, Digit>>, <<{"0"}, D19>>,
               <<D19>>, <<{" "}, D19>> >>, TRUE)
DirH == Alt(<< <<{"2"}, {"0", "1", "2", "3"}>>, <<{"0", "1"}, Digit>>, <<Digit>> >>, TRUE)
DirM == Alt(<< <<D05, Digit>>, <<Digit>> >>, TRUE)
DirS == Alt(<< <<{"6"}, {"0", "1"}>>, <<D05, Digit>>, <<Digit>> >>, TRUE)
Dira == Alt(AnyCaseAll(DayAbbr), TRUE)
Dirb == Alt(AnyCaseAll(MonthAbbr), TRUE)
Sign == {"+", "-"}
ZoneAlts(d, m) ==
  << <<Sign, d, d, {":"}, m, d, {":"}, m, d>>,
     <<Sign, d, d, {":"}, m, d, m, d>>,
     <<Sign, d, d, {":"}, m, d>>,
     <<Sign, d, d, m, d, {":"}, m, d>>,
     <<Sign, d, d, m, d, m, d>>,
     <<Sign, d, d, m, d>>,
     <<{"Z"}>> >>
Dirz == Alt(ZoneAlts(Digit, D05), TRUE)
Blank == Rep(SpaceChar, 1, -1, FALSE)

\* the formats of lines 23-30, in order, each with the fields its groups hold;
\* the arguments are the expressions of the directives and of the format's
\* other characters
FormatList(Y, m, d, H, M, S, a, b, z, sp, slash, dash, colon, comma) ==
  << [re |-> <<Y, slash, m, slash, d>>, fields |-> <<"Y", "m", "d">>],
     [re |-> <<a, comma, sp, d, sp, b, sp, Y, sp, H, colon, M, colon, S, sp, z>>,
      fields |-> <<"a", "d", "b", "Y", "H", "M", "S", "z">>],
     [re |-> <<d, sp, b, sp, Y, sp, H, colon, M, colon, S, sp, z>>,
      fields |-> <<"d", "b", "Y", "H", "M", "S", "z">>],
     [re |-> <<a, sp, b, sp, d, sp, H, colon, M, colon, S, sp, Y>>,
      fields |-> <<"a", "b", "d", "H", "M", "S", "Y">>],
     [re |-> <<Y, dash, m, dash, d, sp, H, colon, M, colon, S>>,
      fields |-> <<"Y", "m", "d", "H", "M", "S">>],
     [re |-> <<Y, dash, m, dash, d>>, fields |-> <<"Y", "m", "d">>] >>
formats ==
  FormatList(DirY, Dirm, Dird, DirH, DirM, DirS, Dira, Dirb, Dirz, Blank,
             Lit("/"), Lit("-"), Lit(":"), Lit(","))

\* the offset of a %z text: [ok, tz]; ok is FALSE for the library's ValueError.
\* z is the text with the colon after the hours taken out; its sixth character,
\* when there is one, must then be the second colon.
ZoneParts(z, hh, mi, ss) ==
  IF hh = None \/ mi = None \/ ss = None THEN [ok |-> FALSE, tz |-> None]
  ELSE [ok |-> TRUE,
        tz |-> Some((IF z[1] = "-" THEN 0 - 1 ELSE 1) * (hh[1] * 3600 + mi[1] * 60 + ss[1]))]
ZoneDigits(z) ==
  ZoneParts(z, IntOf(Sub(z, 2, 3)), IntOf(Sub(z, 4, 5)),
            IF Len(z) > 5 THEN IntOf(Sub(z, 6, 7)) ELSE Some(0))
ZoneColons(z) ==
  IF Len(z) > 5
  THEN (IF z[6] # ":" THEN [ok |-> FALSE, tz |-> None]
        ELSE ZoneDigits(Sub(z, 1, 5) \o Sub(z, 7, Len(z))))
  ELSE ZoneDigits(z)
StrptimeZone(z) ==
  IF z = <<"Z">> THEN [ok |-> TRUE, tz |-> UTC]
  ELSE IF z[4] = ":" THEN ZoneColons(Sub(z, 1, 3) \o Sub(z, 5, Len(z)))
  ELSE ZoneDigits(z)

\* the group of directive f in a match of a format with these fields, None
\* when the format has no such directive
Field(fields, groups, f) ==
  IF PlaceOf(fields, f) = 0 THEN None ELSE Some(groups[PlaceOf(fields, f)])
\* a numeric directive: 0 when the format does not have it
FieldNumber(g) == IF g = None THEN 0 ELSE DigitsVal(Strip(g[1]))
\* the month: %b by name, else %m
FieldMonth(b, m) ==
  IF b = None THEN FieldNumber(m) ELSE PlaceOf(MonthNames, Lower(b[1]))
FieldZone(z) == IF z = None THEN [ok |-> TRUE, tz |-> None] ELSE StrptimeZone(z[1])
Assemble(Y, m, d, H, M, S, zone) ==
  IF zone.ok THEN MakeDatetime(Y, m, d, H, M, S, zone.tz) ELSE None
FromFields(fields, groups) ==
  Assemble(FieldNumber(Field(fields, groups, "Y")),
           FieldMonth(Field(fields, groups, "b"), Field(fields, groups, "m")),
           FieldNumber(Field(fields, groups, "d")),
           FieldNumber(Field(fields, groups, "H")),
           FieldNumber(Field(fields, groups, "M")),
           FieldNumber(Field(fields, groups, "S")),
           FieldZone(Field(fields, groups, "z")))
\* r is the match of the format's expression at the start of s; text left over
\* after it is the library's ValueError
WholeMatch(s, fields, r) ==
  IF r = None THEN None
  ELSE IF r[1].end # Len(s) + 1 THEN None
  ELSE FromFields(fields, r[1].groups)
\* datetime.strptime(s, fmt): None stands for the ValueError
strptime(s, fmt) == WholeMatch(s, fmt.fields, ReMatchAt(fmt.re, 1, s, 1))

\* lines 32-39: the first of the formats fs that reads s, a naive result taken
\* as UTC; dt is strptime's result for the first of fs
RECURSIVE TryFormats(_, _)
FirstFormat(s, fs, dt) == IF dt = None THEN TryFormats(s, Tail(fs)) ELSE NaiveAsUtc(dt)
TryFormats(s, fs) ==
  IF fs = <<>> THEN None ELSE FirstFormat(s, fs, strptime(s, Head(fs)))

\* lines 17-39: std is what parsedate_to_datetime did with the text; its
\* TypeError and ValueError are caught at line 20, any other exception leaves
\* parse_date
StandardOrFormats(text, std) ==
  IF std.exc = "none" THEN std
  ELSE IF std.exc \in {"TypeError", "ValueError"}
  THEN Return(TryFormats(Strip(text), formats))
  ELSE std
\* parse_date (lines 11-41).  ds is None or <<text>>; the result is [exc, val],
\* val None or <<datetime>>
parse_date(ds) ==
  IF ds = None THEN Return(None)
  ELSE IF ds[1] = <<>> THEN Return(None)
  ELSE StandardOrFormats(ds[1], parsedate_to_datetime(ds[1]))

\* the patterns of lines 50-54
PatternList(d4, d12, sep, word, sp, comma) ==
  << <<d4, sep, d12, sep, d12>>,
     <<d12, sep, d12, sep, d4>>,
     <<word, sp, d12, comma, sp, d4>> >>
patterns ==
  PatternList(Rep(Digit, 4, 4, TRUE), Rep(Digit, 1, 2, TRUE), Rep(DateSep, 1, 1, FALSE),
              Rep(WordChar, 1, -1, TRUE), Rep(SpaceChar, 1, -1, FALSE),
              Rep({","}, 0, 1, FALSE))

\* lines 61-67 with the three groups as numbers (None: int() raised ValueError):
\* a first group of four characters is a year, and then the groups are year,
\* month, day; otherwise the third group is the year and the date its January 1
GroupDate(first, g1, g2, g3) ==
  IF Len(first) = 4
  THEN (IF g1 = None \/ g2 = None \/ g3 = None THEN None
        ELSE AsUtc(MakeDatetime(g1[1], g2[1], g3[1], 0, 0, 0, None)))
  ELSE (IF g3 = None THEN None ELSE AsUtc(MakeDatetime(g3[1], 1, 1, 0, 0, 0, None)))
\* lines 59-67 for one match: None stands for the ValueError caught at line 68
FromGroups(groups) ==
  GroupDate(groups[1], IntOf(groups[1]), IntOf(groups[2]), IntOf(groups[3]))

\* the loop of lines 56-69 over the patterns ps; m is the search of the first
\* of ps, dt what lines 59-67 make of it
RECURSIVE RecoverFrom(_, _)
Recovered(s, ps, dt) == IF dt = None THEN RecoverFrom(s, Tail(ps)) ELSE dt
Searched(s, ps, m) ==
  IF m = None THEN RecoverFrom(s, Tail(ps)) ELSE Recovered(s, ps, FromGroups(m[1].groups))
RecoverFrom(s, ps) ==
  IF ps = <<>> THEN None ELSE Searched(s, ps, ReSearch(Head(ps), s))

\* lines 45-69; parsed is what parse_date did
Fixed(ds, parsed) ==
  IF parsed.exc # "none" THEN parsed
  ELSE IF parsed.val # None THEN parsed
  ELSE IF ds = None THEN Raise("TypeError")
  ELSE Return(RecoverFrom(ds[1], patterns))
\* fix_date (lines 43-69).  ds is None or <<text>>.  The result is [exc, val]: exc
\* names the exception that leaves fix_date ("none": a normal return of val).  With
\* ds None, parse_date returns None and re.search(pattern, None) raises TypeError.
fix_date(ds) == Fixed(ds, parse_date(ds))

(***************************************************************************)
(* Texts of the program                                                    *)
(***************************************************************************)
FromSpace == <<"F","r","o","m"," ">>
MailerDaemon == <<"M","A","I","L","E","R","-","D","A","E","M","O","N">>
EpochString == <<"T","h","u"," ","J","a","n"," ","1"," ","0","0",":","0","0",":","0","0"," ","1","9","7","0">>
GooglePrefix == <<"X","-","G","o","o","g","l","e","-">>
NameFrom == <<"F","r","o","m">>
NameDate == <<"D","a","t","e">>
NameReferences == <<"R","e","f","e","r","e","n","c","e","s">>
NameInReplyTo == <<"I","n","-","R","e","p","l","y","-","T","o">>
NameMessageID == <<"M","e","s","s","a","g","e","-","I","D">>

(***************************************************************************)
(* The envelope-marker expressions of lines 79 and 87                      *)
(***************************************************************************)
\* (?:^|\n)From -?\d+ and then last
Marker(last) ==
  <<StartOrNl, Lit("F"), Lit("r"), Lit("o"), Lit("m"), Lit(" "),
    Rep({"-"}, 0, 1, FALSE), Rep(Digit, 1, -1, FALSE), last>>
\* (?:^|\n)From -?\d+(?:\n|$)
CountPattern == Marker(NlOrEnd)
\* (?:^|\n)From -?\d+\n
SplitPattern == Marker(Lit("\n"))

\* len(re.findall(re, s)): the matches are taken left to right, each search
\* starting where the match before it ended; m is the search from pos
RECURSIVE CountMatches(_, _, _)
Counted(re, s, m) == IF m = None THEN 0 ELSE 1 + CountMatches(re, s, m[1].end)
CountMatches(re, s, pos) == Counted(re, s, ReSearchFrom(re, s, pos))

\* re.split(re, s): the texts between the matches; m is the search from pos
RECURSIVE SplitFrom(_, _, _)
SplitAt(re, s, pos, m) ==
  IF m = None THEN <<Sub(s, pos, Len(s))>>
  ELSE <<Sub(s, pos, m[1].start - 1)>> \o SplitFrom(re, s, m[1].end)
SplitFrom(re, s, pos) == SplitAt(re, s, pos, ReSearchFrom(re, s, pos))
ReSplit(re, s) == SplitFrom(re, s, 1)

(***************************************************************************)
(* email.message_from_string (line 94) and the Message methods used.  A    *)
(* message is [headers, body]: headers a sequence of <<name, value>> in    *)
(* the order of the text, duplicates kept.                                 *)
(***************************************************************************)
\* the lines of a text, each with its newline; the line from start on ends
\* with the newline at i (0: at the end of the text)
RECURSIVE LinesFrom(_, _)
LineTo(s, start, i) ==
  IF i = 0 THEN <<Sub(s, start, Len(s))>> ELSE <<Sub(s, start, i)>> \o LinesFrom(s, i + 1)
LinesFrom(s, start) ==
  IF start > Len(s) THEN <<>> ELSE LineTo(s, start, FirstIn(s, {"\n"}, start))
SplitLines(s) == LinesFrom(s, 1)

Blanks == {" ", "\t"}
\* a header line: a name without whitespace, colon at c (0: no colon)
NameBefore(l, c) == c > 0 /\ \A j \in 1..(c - 1) : l[j] \notin SpaceChar
\* the parser's test for a line of the header block: a "From " line, a
\* continuation line, or a name followed by a colon
IsHeaderLine(l) ==
  \/ StartsWith(l, FromSpace)
  \/ l[1] \in Blanks
  \/ NameBefore(l, Find(l, ":"))

\* how many lines at the start of lines belong to the header block
RECURSIVE HeaderCount(_, _)
HeaderCount(lines, i) ==
  IF i > Len(lines) THEN i - 1
  ELSE IF IsHeaderLine(lines[i]) THEN HeaderCount(lines, i + 1)
  ELSE i - 1

\* one header from its source lines: the name up to the colon at c, the value
\* without leading blanks and without the final newline
HeaderAt(src, c) ==
  <<Sub(src[1], 1, c - 1),
    RStrip(LStrip(Sub(src[1], c + 1, Len(src[1])), Blanks) \o Concat(Tail(src)),
           {"\r", "\n"})>>
HeaderOf(src) == HeaderAt(src, Find(src[1], ":"))
\* the header read so far, if any
Closed(cur) == IF cur = <<>> THEN <<>> ELSE <<HeaderOf(cur)>>
\* the header read so far, then what the rest of the lines gave
Then(cur, r) == [headers |-> Closed(cur) \o r.headers, unread |-> r.unread]

\* the headers of the header block; cur holds the source lines of the header being
\* read.  A "From " line is the envelope when it comes first, goes back to the
\* body when it comes last, and is dropped otherwise.
RECURSIVE ParseHeaders(_, _, _)
ParseLine(lines, i, cur, l) ==
  IF l[1] \in Blanks
  THEN ParseHeaders(lines, i + 1, IF cur = <<>> THEN cur ELSE Append(cur, l))
  ELSE IF StartsWith(l, FromSpace)
  THEN (IF i > 1 /\ i = Len(lines) THEN [headers |-> Closed(cur), unread |-> l]
        ELSE Then(cur, ParseHeaders(lines, i + 1, <<>>)))
  ELSE Then(cur, ParseHeaders(lines, i + 1, IF l[1] = ":" THEN <<>> ELSE <<l>>))
ParseHeaders(lines, i, cur) ==
  IF i > Len(lines) THEN [headers |-> Closed(cur), unread |-> <<>>]
  ELSE ParseLine(lines, i, cur, lines[i])

\* the message of its lines: n of them are the header block, h what they hold;
\* one blank line after the header block is not part of the body
Body(lines, n, unread) ==
  unread \o Concat(Sub(lines, IF n < Len(lines) /\ lines[n + 1][1] = "\n"
                              THEN n + 2 ELSE n + 1, Len(lines)))
MessageOf(lines, n, h) == [headers |-> h.headers, body |-> Body(lines, n, h.unread)]
MessageAt(lines, n) == MessageOf(lines, n, ParseHeaders(Sub(lines, 1, n), 1, <<>>))
MessageLines(lines) == MessageAt(lines, HeaderCount(lines, 1))
message_from_string(text) == MessageLines(SplitLines(text))

\* the positions of the headers called name, letter case disregarded
SameName(headers, lname) == {i \in DOMAIN headers : Lower(headers[i][1]) = lname}
Named(msg, name) == SameName(msg.headers, Lower(name))
Min(S) == CHOOSE x \in S : \A y \in S : x <= y
\* name in msg
Has(msg, name) == Named(msg, name) # {}
\* the value of the first of the headers at the positions S, None without one
FirstOf(msg, S) == IF S = {} THEN None ELSE Some(msg.headers[Min(S)][2])
\* msg.get(name): the first value under the name, None without one
Get(msg, name) == FirstOf(msg, Named(msg, name))
\* msg.get(name, default)
OrDefault(v, default) == IF v = None THEN default ELSE v[1]
GetOr(msg, name, default) == OrDefault(Get(msg, name), default)
\* msg.keys()
Keys(msg) == [i \in DOMAIN msg.headers |-> msg.headers[i][1]]
\* del msg[name]: every header of that name goes, letter case disregarded
Others(headers, lname) == SelectSeq(headers, LAMBDA h : Lower(h[1]) # lname)
Delete(msg, name) == [msg EXCEPT !.headers = Others(msg.headers, Lower(name))]
\* a variant of msg[name] = value that first drops the headers of that name
SetItemReplacing(msg, name, value) ==
  [msg EXCEPT !.headers = Append(Others(msg.headers, Lower(name)), <<name, value>>)]
\* msg[name] = value: one more header at the end
SetItem(msg, name, value) == [msg EXCEPT !.headers = Append(msg.headers, <<name, value>>)]
\* msg.replace_header(name, value): the first header of that name, its name kept
ReplaceHeader(msg, name, value) ==
  [msg EXCEPT !.headers[Min(Named(msg, name))][2] = value]

\* email.utils.parseaddr(v)[1] (line 99) for the two forms of the inputs: an
\* address in angle brackets after a phrase, and a bare address
Bare(x) == SelectSeq(x, LAMBDA c : c \notin SpaceChar)
UpTo(t, b) == IF b = 0 THEN t ELSE Sub(t, 1, b - 1)
Bracketed(t) == Bare(UpTo(t, Find(t, ">")))
AddrAt(v, a) == IF a > 0 THEN Bracketed(Sub(v, a + 1, Len(v))) ELSE Bare(v)
parseaddr(v) == AddrAt(v, Find(v, "<"))

(***************************************************************************)
(* Date output: strftime (line 105), timestamp and formatdate (132-133)    *)
(***************************************************************************)
\* date.strftime('%a %b %d %H:%M:%S %Y')
strftime(dt) ==
  DayAbbr[Weekday(dt.year, dt.month, dt.day) + 1] \o <<" ">> \o MonthAbbr[dt.month]
  \o <<" ">> \o Dec(dt.day, 2) \o <<" ">> \o Dec(dt.hour, 2) \o <<":">>
  \o Dec(dt.minute, 2) \o <<":">> \o Dec(dt.second, 2) \o <<" ">> \o Dec(dt.year, 1)

\* the ordinal of 1970-01-01
EpochOrdinal == Ordinal(1970, 1, 1)
\* int(dt.timestamp()): the time since 1970-01-01 UTC, held as [day, sec] (whole
\* days and the seconds 0..86399 into the day) for day * 86400 + sec.  A naive
\* datetime is read in the machine's zone, local seconds east of UTC.  sod
\* is the time of day less the offset.
SinceEpoch(ord, sod) == [day |-> ord - EpochOrdinal + sod \div 86400, sec |-> sod % 86400]
timestamp(dt, local) ==
  SinceEpoch(Ordinal(dt.year, dt.month, dt.day),
             dt.hour * 3600 + dt.minute * 60 + dt.second
             - (IF dt.tz = None THEN local ELSE dt.tz[1]))

\* whether the day of ordinal ord is of the years 1..9999 (else formatdate raises)
InRange(ord) == ord >= 1 /\ ord <= Ordinal(9999, 12, 31)
Representable(ts) == InRange(ts.day + EpochOrdinal)

\* the year and the month a day is in
YearOf(ord) ==
  CHOOSE y \in (ord \div 366 + 1)..(ord \div 365 + 1) :
    DaysBeforeYear(y) < ord /\ ord <= DaysBeforeYear(y + 1)
MonthOf(y, doy) ==
  CHOOSE m \in 1..12 :
    DaysBeforeMonth(y, m) < doy /\ doy <= DaysBeforeMonth(y, m) + DaysInMonth(y, m)
\* email.utils.formatdate(ts, usegmt=True), from the year, month and day on
FormatDay(y, m, d, sec) ==
  DayAbbr[Weekday(y, m, d) + 1] \o <<",", " ">> \o Dec(d, 2) \o <<" ">> \o MonthAbbr[m]
  \o <<" ">> \o Dec(y, 4) \o <<" ">> \o Dec(sec \div 3600, 2) \o <<":">>
  \o Dec((sec % 3600) \div 60, 2) \o <<":">> \o Dec(sec % 60, 2) \o <<" ", "G", "M", "T">>
FormatMonth(y, m, doy, sec) == FormatDay(y, m, doy - DaysBeforeMonth(y, m), sec)
FormatYear(y, doy, sec) == FormatMonth(y, MonthOf(y, doy), doy, sec)
FormatOrdinal(y, ord, sec) == FormatYear(y, ord - DaysBeforeYear(y), sec)
formatdate(ts) == FormatOrdinal(YearOf(ts.day + EpochOrdinal), ts.day + EpochOrdinal, ts.sec)

(***************************************************************************)
(* mailbox.mbox(temp_name) (line 116): every line that begins with "From " *)
(* starts a message; a blank line right before the next one is not part of *)
(* the message.  Each message is [from_, headers, body].                   *)
(***************************************************************************)
\* the message of the "From " line and of the message m read from the lines after it
Enveloped(line, m) ==
  [from_ |-> RStrip(Sub(line, Len(FromSpace) + 1, Len(line)), {"\n"}),
   headers |-> m.headers, body |-> m.body]
MboxMessage(lines, a, b) == Enveloped(lines[a], MessageLines(Sub(lines, a + 1, b)))

\* the messages of the lines from i on; start is the "From " line of the message
\* being read (0 before the first)
RECURSIVE Toc(_, _, _, _)
Close(lines, start, stop) ==
  IF start = 0 THEN <<>> ELSE <<MboxMessage(lines, start, stop)>>
TocLine(lines, i, start, closed) ==
  IF i > Len(lines) THEN closed
  ELSE IF StartsWith(lines[i], FromSpace) THEN closed \o Toc(lines, i + 1, i, FALSE)
  ELSE Toc(lines, i + 1, start, lines[i] = <<"\n">>)
Toc(lines, i, start, last_was_empty) ==
  TocLine(lines, i, start, Close(lines, start, IF last_was_empty THEN i - 2 ELSE i - 1))

_generate_toc(text) == Toc(SplitLines(text), 1, 0, FALSE)

(***************************************************************************)
(* fix_dates_in_mbox (lines 71-176)                                        *)
(***************************************************************************)
\* line 99: the address of the From header, 'MAILER-DAEMON' for an empty one
OrMailerDaemon(a) == IF a = <<>> THEN MailerDaemon ELSE a
BlockAddr(msg) == OrMailerDaemon(parseaddr(GetOr(msg, NameFrom, MailerDaemon)))

\* lines 102-109: the date of the envelope line, from what fix_date did (r.exc)
\* and returned (r.val); AttributeError and ValueError are caught at line 108
EnvelopeDate(r) ==
  IF r.exc = "none" /\ r.val # None THEN strftime(r.val[1]) ELSE EpochString

\* lines 112-113: what one block adds to the temporary file
Written(addr, ed, block) ==
  FromSpace \o addr \o <<" ">> \o ed \o <<"\n">> \o Strip(block) \o <<"\n", "\n">>

\* the exceptions of line 103 that lines 108-109 catch
Caught == {"AttributeError", "ValueError"}

\* lines 75-79: the input is read and its envelope markers are counted
ReadAndCount ==
  /\ pc = "start"
  /\ fixed_from_lines' = CountMatches(CountPattern, content, 1)
  /\ pc' = "split"
  /\ UNCHANGED <<content, temp, messages, blocks, msg_content, from_addr, date_str,
                 date, env_date, mbox, before, fixed_messages, total, fixed_dates,
                 removed_google_headers, preserved_threading, output, error>>

\* lines 82-87: the temporary file is created and the input is split
SplitMessages ==
  /\ pc = "split"
  /\ temp' = Some(<<>>)
  /\ messages' = ReSplit(SplitPattern, content)
  /\ pc' = "first_pass"
  /\ UNCHANGED <<content, fixed_from_lines, blocks, msg_content, from_addr, date_str,
                 date, env_date, mbox, before, fixed_messages, total, fixed_dates,
                 removed_google_headers, preserved_threading, output, error>>

\* lines 89-91: a block of whitespace only is passed over
FirstPassSkip ==
  /\ pc = "first_pass"
  /\ messages # <<>>
  /\ Strip(Head(messages)) = <<>>
  /\ msg_content' = Head(messages)
  /\ messages' = Tail(messages)
  /\ UNCHANGED <<pc, content, fixed_from_lines, temp, blocks, from_addr, date_str,
                 date, env_date, mbox, before, fixed_messages, total, fixed_dates,
                 removed_google_headers, preserved_threading, output, error>>

\* lines 101-113 when line 103 returns or raises what line 108 catches; r is
\* what fix_date did with the Date header ds, ed the date of the envelope line
WriteEnvelope(block, addr, ed) ==
  /\ env_date' = ed
  /\ temp' = Some(temp[1] \o Written(addr, ed, block))
WriteBlock(block, addr, ds, r) ==
  /\ r.exc \in {"none"} \cup Caught
  /\ msg_content' = block
  /\ from_addr' = addr
  /\ date_str' = ds
  /\ date' = IF r.exc = "none" THEN r.val ELSE date
  /\ WriteEnvelope(block, addr, EnvelopeDate(r))
  /\ blocks' = Append(blocks, block)
\* lines 94-103 for the message msg of the block
WriteParsed(block, msg, ds) == WriteBlock(block, BlockAddr(msg), ds, fix_date(ds))
WriteMessage(block, msg) == WriteParsed(block, msg, Get(msg, NameDate))

\* lines 93-113: a block is parsed and written with its envelope line
FirstPassWrite ==
  /\ pc = "first_pass"
  /\ messages # <<>>
  /\ Strip(Head(messages)) # <<>>
  /\ WriteMessage(Head(messages), message_from_string(Head(messages)))
  /\ messages' = Tail(messages)
  /\ UNCHANGED <<pc, content, fixed_from_lines, mbox, before, fixed_messages, total,
                 fixed_dates, removed_google_headers, preserved_threading, output, error>>

\* lines 94-103 when line 103 raises what line 108 does not catch
RaiseBlock(block, addr, ds, r) ==
  /\ r.exc \notin {"none"} \cup Caught
  /\ msg_content' = block
  /\ from_addr' = addr
  /\ date_str' = ds
  /\ error' = r.exc
  /\ blocks' = Append(blocks, block)
RaiseParsed(block, msg, ds) == RaiseBlock(block, BlockAddr(msg), ds, fix_date(ds))
RaiseMessage(block, msg) == RaiseParsed(block, msg, Get(msg, NameDate))

\* line 103 raising an exception lines 108-109 do not catch: control goes to
\* line 174 with the temporary file left as it is
FirstPassRaise ==
  /\ pc = "first_pass"
  /\ messages # <<>>
  /\ Strip(Head(messages)) # <<>>
  /\ RaiseMessage(Head(messages), message_from_string(Head(messages)))
  /\ messages' = Tail(messages)
  /\ pc' = "except"
  /\ UNCHANGED <<content, fixed_from_lines, temp, date, env_date, mbox, before,
                 fixed_messages, total, fixed_dates, removed_google_headers,
                 preserved_threading, output>>

\* lines 115-121: the temporary file is closed and reopened as a mailbox
OpenMbox ==
  /\ pc = "first_pass"
  /\ messages = <<>>
  /\ mbox' = _generate_toc(temp[1])
  /\ fixed_messages' = <<>>
  /\ total' = 0
  /\ fixed_dates' = 0
  /\ removed_google_headers' = 0
  /\ preserved_threading' = 0
  /\ pc' = "second_pass"
  /\ UNCHANGED <<content, fixed_from_lines, temp, messages, blocks, msg_content,
                 from_addr, date_str, date, env_date, before, output, error>>

\* the zones the machine may be in, in seconds east of UTC
LocalZones == {0 - 18000, 0, 3600}

\* lines 127-129: what fix_date does with the Date header; without one it is
\* not called
FixedDate(message) ==
  IF Has(message, NameDate) THEN fix_date(Get(message, NameDate)) ELSE Return(None)

\* lines 130-133: the message with its Date header rewritten
FixDateHeader(message, fixed, local) ==
  IF fixed = None THEN message
  ELSE ReplaceHeader(message, NameDate, formatdate(timestamp(fixed[1], local)))

\* lines 136-140: the threading headers, '' for a missing one
ThreadingNames == <<NameReferences, NameInReplyTo, NameMessageID>>
ValuesOf(message, names) == [i \in DOMAIN names |-> GetOr(message, names[i], <<>>)]
ThreadingHeaders(message) == ValuesOf(message, ThreadingNames)

\* line 143
GoogleHeaders(message) ==
  SelectSeq(Keys(message), LAMBDA k : StartsWith(k, GooglePrefix))

\* a variant of lines 144-146 that deletes the first of the names only
RemoveFirst(message, names) ==
  IF names = <<>> THEN message ELSE Delete(message, Head(names))
\* lines 144-146
RECURSIVE RemoveAll(_, _)
RemoveAll(message, names) ==
  IF names = <<>> THEN message ELSE RemoveAll(Delete(message, Head(names)), Tail(names))

\* lines 149-152: the headers names with their values, from the i-th on
RECURSIVE RestoreFrom(_, _, _, _)
RestoreFrom(message, names, values, i) ==
  IF i > Len(names) THEN message
  ELSE IF values[i] # <<>>
  THEN RestoreFrom(SetItem(message, names[i], values[i]), names, values, i + 1)
  ELSE RestoreFrom(message, names, values, i + 1)
RestoreThreading(message, values) == RestoreFrom(message, ThreadingNames, values, 1)

\* how many of the values are not ''
Truthy(values) == Cardinality({i \in DOMAIN values : values[i] # <<>>})

\* lines 135-154, from the threading values and the Google headers of the
\* message m1 that lines 126-133 left
Clean(m1, values, google) ==
  /\ removed_google_headers' = removed_google_headers + Len(google)
  /\ preserved_threading' = preserved_threading + Truthy(values)
  /\ fixed_messages' = Append(fixed_messages, RestoreThreading(RemoveAll(m1, google), values))
CleanHeaders(m1) == Clean(m1, ThreadingHeaders(m1), GoogleHeaders(m1))
\* lines 124-154 for a message; r is what fix_date did with its Date header
Normalize(message, r, local) ==
  /\ r.exc = "none"
  /\ r.val # None => Representable(timestamp(r.val[1], local))
  /\ before' = Some(message)
  /\ total' = total + 1
  /\ fixed_dates' = IF r.val # None THEN fixed_dates + 1 ELSE fixed_dates
  /\ CleanHeaders(FixDateHeader(message, r.val, local))

\* the same in whichever zone the machine is
NormalizeDated(message, r) == \E local \in LocalZones : Normalize(message, r, local)

\* lines 123-154: one message of the second pass
SecondPassStep ==
  /\ pc = "second_pass"
  /\ mbox # <<>>
  /\ NormalizeDated(Head(mbox), FixedDate(Head(mbox)))
  /\ mbox' = Tail(mbox)
  /\ UNCHANGED <<pc, content, fixed_from_lines, temp, messages, blocks, msg_content,
                 from_addr, date_str, date, env_date, output, error>>

\* lines 124-133 raising: fix_date raises (line 129), or the fixed date, taken
\* to UTC, is not a time of the years 1..9999 and formatdate raises ValueError
\* (line 133)
Failing(r, local) ==
  IF r.exc # "none"
  THEN error' = r.exc /\ fixed_dates' = fixed_dates
  ELSE /\ r.val # None
       /\ ~Representable(timestamp(r.val[1], local))
       /\ error' = "ValueError"
       /\ fixed_dates' = fixed_dates + 1

FailingDated(r) == \E local \in LocalZones : Failing(r, local)

SecondPassRaise ==
  /\ pc = "second_pass"
  /\ mbox # <<>>
  /\ FailingDated(FixedDate(Head(mbox)))
  /\ before' = Some(Head(mbox))
  /\ total' = total + 1
  /\ pc' = "except"
  /\ UNCHANGED <<content, fixed_from_lines, temp, messages, blocks, msg_content,
                 from_addr, date_str, date, env_date, mbox, fixed_messages,
                 removed_google_headers, preserved_threading, output>>

\* lines 156-164: the fixed messages are added to the output mailbox
SaveOutput ==
  /\ pc = "second_pass"
  /\ mbox = <<>>
  /\ output' = Some(fixed_messages)
  /\ pc' = "cleanup"
  /\ UNCHANGED <<content, fixed_from_lines, temp, messages, blocks, msg_content,
                 from_addr, date_str, date, env_date, mbox, before, fixed_messages,
                 total, fixed_dates, removed_google_headers, preserved_threading, error>>

\* lines 157-158 failing: the output mailbox cannot be created or locked
SaveOutputFails ==
  /\ pc = "second_pass"
  /\ mbox = <<>>
  /\ error' = "OSError"
  /\ pc' = "except"
  /\ UNCHANGED <<content, fixed_from_lines, temp, messages, blocks, msg_content,
                 from_addr, date_str, date, env_date, mbox, before, fixed_messages,
                 total, fixed_dates, removed_google_headers, preserved_threading, output>>

\* lines 166-172: the temporary file is deleted and the counters are logged
Cleanup ==
  /\ pc = "cleanup"
  /\ temp' = None
  /\ pc' = "done"
  /\ UNCHANGED <<content, fixed_from_lines, messages, blocks, msg_content, from_addr,
                 date_str, date, env_date, mbox, before, fixed_messages, total,
                 fixed_dates, removed_google_headers, preserved_threading, output, error>>

\* lines 174-176: the error is logged and raised again
ExceptHandler ==
  /\ pc = "except"
  /\ pc' = "raised"
  /\ UNCHANGED <<content, fixed_from_lines, temp, messages, blocks, msg_content,
                 from_addr, date_str, date, env_date, mbox, before, fixed_messages,
                 total, fixed_dates, removed_google_headers, preserved_threading,
                 output, error>>

(***************************************************************************)
(* Inputs: archives.  An archive is up to MaxMsgs pieces put together.     *)
(***************************************************************************)
MaxMsgs == 3

\* the pieces archives are put together from
MessageTexts ==
  <<
    \* a standards date, a sender, a Message-ID and a Google header
    <<"F","r","o","m"," ","1","\n","F","r","o","m",":"," ","\"","A"," ","B","\""," ",
        "<","a","@","b",".","c","o","m",">","\n","D","a","t","e",":"," ","T","h","u",
        ","," ","2","1"," ","M","a","y"," ","1","9","9","8"," ","0","5",":","3","3",":",
        "2","9"," ","-","0","5","0","0","\n","M","e","s","s","a","g","e","-","I","D",
        ":"," ","<","m",">","\n","X","-","G","o","o","g","l","e","-","A",":"," ","1",
        "\n","\n","b","\n">>,
    \* a template date
    <<"F","r","o","m"," ","-","2","\n","D","a","t","e",":"," ","1","9","9","8","/",
        "0","3","/","1","9","\n","\n","b","\n">>,
    \* a Date that is no date
    <<"F","r","o","m"," ","3","\n","D","a","t","e",":"," ","g","a","r","b","a","g",
        "e","-","u","n","p","a","r","s","e","a","b","l","e","-","t","e","x","t","\n",
        "\n","b","\n">>,
    \* a sender and no Date
    <<"F","r","o","m"," ","4","\n","F","r","o","m",":"," ","\"","A"," ","B","\""," ",
        "<","a","@","b",".","c","o","m",">","\n","\n","b","\n">>,
    \* a marker line and nothing else
    <<"F","r","o","m"," ","5","\n">>,
    \* a marker line without its newline
    <<"F","r","o","m"," ","6">>,
    \* a body line that begins with "From "
    <<"F","r","o","m"," ","7","\n","D","a","t","e",":"," ","1","9","9","8","/","0",
        "3","/","1","9","\n","\n","F","r","o","m"," ","m","e","\n">>,
    \* a date whose UTC time is past the year 9999
    <<"F","r","o","m"," ","8","\n","D","a","t","e",":"," ","3","1"," ","D","e","c",
        " ","9","9","9","9"," ","2","3",":","5","9",":","5","9"," ","-","0","1","0","0",
        "\n","\n","b","\n">>,
    \* a ctime date
    <<"F","r","o","m"," ","9","\n","D","a","t","e",":"," ","T","h","u"," ","M","a",
        "y"," ","2","1"," ","0","5",":","3","3",":","2","9"," ","1","9","9","8","\n",
        "\n","b","\n">>,
    \* text without a marker line
    <<"A","\n","\n">>,
    \* a Date whose year is beyond a C int
    <<"F","r","o","m"," ","1","1","\n","D","a","t","e",":"," ","1"," ","J","a","n",
        " ","3","0","0","0","0","0","0","0","0","0"," ","0",":","0",":","0","\n","\n",
        "b","\n">>
  >>

\* the archive of the specification's split example
SplitExample ==
  <<"F","r","o","m"," ","1","2","3","4","5","\n","A","\n","\n","F","r","o","m"," ","-",
    "6","7","8","9","0","\n","B","\n">>

Archives ==
  UNION {{Concat([i \in 1..n |-> MessageTexts[f[i]]]) : f \in [1..n -> DOMAIN MessageTexts]}
         : n \in 0..MaxMsgs}
  \cup {SplitExample}

(***************************************************************************)
(* The whole run of fix_dates_in_mbox on an archive                        *)
(***************************************************************************)
Init ==
  /\ pc = "start"
  /\ content \in Archives
  /\ fixed_from_lines = 0 /\ temp = None /\ messages = <<>> /\ blocks = <<>>
  /\ msg_content = <<>> /\ from_addr = <<>> /\ date_str = None /\ date = None
  /\ env_date = <<>> /\ mbox = <<>> /\ before = None /\ fixed_messages = <<>>
  /\ total = 0 /\ fixed_dates = 0 /\ removed_google_headers = 0
  /\ preserved_threading = 0 /\ output = None /\ error = "none"

Next ==
  \/ ReadAndCount
  \/ SplitMessages
  \/ FirstPassSkip
  \/ FirstPassWrite
  \/ FirstPassRaise
  \/ OpenMbox
  \/ SecondPassStep
  \/ SecondPassRaise
  \/ SaveOutput
  \/ SaveOutputFails
  \/ Cleanup
  \/ ExceptHandler

Spec == Init /\ [][Next]_vars

(***************************************************************************)
(* Inputs: date texts                                                      *)
(***************************************************************************)
MaxTokens == 4

\* the pieces date texts are put together from
DateTokens ==
  << <<"J","u","n","e"," ">>, <<"M","a","y"," ">>, <<"3">>, <<"1","5">>,
     <<"1","9","9","8">>, <<"/">>, <<" ">>, <<",">> >>

ShortDates ==
  UNION {{Concat([i \in 1..n |-> DateTokens[f[i]]]) : f \in [1..n -> DOMAIN DateTokens]}
         : n \in 0..MaxTokens}

\* the examples of lines 24-29 and of the specification
ExampleDates ==
  { <<"1","9","9","6","/","0","3","/","1","9">>,
    <<"T","h","u",","," ","2","1"," ","M","a","y"," ","1","9","9","8"," ","0","5",":",
        "3","3",":","2","9"," ","-","0","5","0","0">>,
    <<"2","1"," ","M","a","y"," ","1","9","9","8"," ","0","5",":","3","3",":","2","9",
        " ","-","0","5","0","0">>,
    <<"T","h","u"," ","M","a","y"," ","2","1"," ","0","5",":","3","3",":","2","9"," ",
        "1","9","9","8">>,
    <<"1","9","9","8","-","0","5","-","2","1"," ","0","5",":","3","3",":","2","9">>,
    <<"1","9","9","8","-","0","5","-","2","1">>,
    <<"g","a","r","b","a","g","e","-","u","n","p","a","r","s","e","a","b","l","e","-",
        "t","e","x","t">>,
    <<"1","5","-","0","6","-","1","9","9","8">>,
    <<"J","u","n","e"," ","1","5",","," ","1","9","9","8">>,
    <<"M","a","r","c","h"," ","3",","," ","1","9","9","8">>,
    <<"1"," ","J","a","n"," ","3","0","0","0","0","0","0","0","0","0"," ","0",":","0",
        ":","0">> }

DateStrings == ShortDates \cup ExampleDates

(***************************************************************************)
(* fix_date on its own: the date text is drawn, then fix_date is applied   *)
(***************************************************************************)
Unused ==
  /\ content = <<>> /\ fixed_from_lines = 0 /\ temp = None /\ messages = <<>>
  /\ blocks = <<>> /\ msg_content = <<>> /\ from_addr = <<>> /\ env_date = <<>>
  /\ mbox = <<>> /\ before = None /\ fixed_messages = <<>> /\ total = 0
  /\ fixed_dates = 0 /\ removed_google_headers = 0 /\ preserved_threading = 0
  /\ output = None /\ error = "none"

InitDate ==
  /\ pc = "fix_date"
  /\ date_str \in {None} \cup {Some(s) : s \in DateStrings}
  /\ date = None
  /\ Unused

\* r is what fix_date did
Returned(r) ==
  /\ pc' = IF r.exc = "none" THEN "returned" ELSE "raised"
  /\ date' = r.val
  /\ error' = r.exc
CallFixDate ==
  /\ pc = "fix_date"
  /\ Returned(fix_date(date_str))
  /\ UNCHANGED <<content, fixed_from_lines, temp, messages, blocks, msg_content,
                 from_addr, date_str, env_date, mbox, before, fixed_messages, total,
                 fixed_dates, removed_google_headers, preserved_threading, output>>

NextDate == CallFixDate
SpecDate == InitDate /\ [][NextDate]_vars

(***************************************************************************)
(* Inputs: messages of the second pass.  A message is up to MaxHeaders     *)
(* headers of the pool and a body.                                         *)
(***************************************************************************)
MaxHeaders == 3

\* the headers messages are put together from: Google headers (one name twice,
\* a second name, a name in another letter case), threading headers (one name
\* in two letter cases, an empty value), dates and another header
HeaderPool ==
  << << <<"X","-","G","o","o","g","l","e","-","A">>, <<"1">> >>,
     << <<"X","-","G","o","o","g","l","e","-","A">>, <<"2">> >>,
     << <<"X","-","G","o","o","g","l","e","-","B">>, <<"3">> >>,
     << <<"x","-","g","o","o","g","l","e","-","a">>, <<"4">> >>,
     << <<"M","e","s","s","a","g","e","-","I","D">>, <<"<","m",">">> >>,
     << <<"m","e","s","s","a","g","e","-","i","d">>, <<"<","n",">">> >>,
     << <<"R","e","f","e","r","e","n","c","e","s">>, <<"<","r",">">> >>,
     << <<"I","n","-","R","e","p","l","y","-","T","o">>, <<>> >>,
     << <<"D","a","t","e">>, <<"1","9","9","8","/","0","3","/","1","9">> >>,
     << <<"D","a","t","e">>,
        <<"3","1"," ","D","e","c"," ","9","9","9","9"," ","2","3",":","5","9",":","5","9",
          " ","-","0","1","0","0">> >>,
     << <<"S","u","b","j","e","c","t">>, <<"s">> >> >>

HeaderLists == UNION {[1..n -> Range(HeaderPool)] : n \in 0..MaxHeaders}

\* a message of the mailbox of line 116 with the headers h
MessageWith(h) ==
  [from_ |-> MailerDaemon \o <<" ">> \o EpochString, headers |-> h, body |-> <<"b", "\n">>]

(***************************************************************************)
(* The loop body of lines 123-154 on its own: the message is drawn, then   *)
(* the loop body is applied                                                *)
(***************************************************************************)
InitNorm ==
  /\ pc = "second_pass"
  /\ mbox \in {<<MessageWith(h)>> : h \in HeaderLists}
  /\ temp = Some(<<>>)
  /\ content = <<>> /\ fixed_from_lines = 0 /\ messages = <<>> /\ blocks = <<>>
  /\ msg_content = <<>> /\ from_addr = <<>> /\ date_str = None /\ date = None
  /\ env_date = <<>> /\ before = None /\ fixed_messages = <<>> /\ total = 0
  /\ fixed_dates = 0 /\ removed_google_headers = 0 /\ preserved_threading = 0
  /\ output = None /\ error = "none"

NextNorm ==
  \/ SecondPassStep
  \/ SecondPassRaise

SpecNorm == InitNorm /\ [][NextNorm]_vars

(***************************************************************************)
(* Properties                                                              *)
(***************************************************************************)
\* the loop body of lines 123-154 has just been through the message before[1]
\* and has left After
Passed == pc = "second_pass" /\ before # None
After == fixed_messages[Len(fixed_messages)]
\* the values a message holds under a name
ValuesUnder(msg, name) == {msg.headers[i][2] : i \in Named(msg, name)}

\* C1: for each of References, In-Reply-To and Message-ID, a message holds the
\* same set of values under the name after the second-pass loop body as before
\* it, and when the value read for the name before it is not empty, the value
\* read after it is that value.
ThreadingPreserved ==
  Passed =>
    \A i \in DOMAIN ThreadingNames :
      /\ ValuesUnder(After, ThreadingNames[i]) = ValuesUnder(before[1], ThreadingNames[i])
      /\ GetOr(before[1], ThreadingNames[i], <<>>) # <<>>
           => Get(After, ThreadingNames[i]) = Get(before[1], ThreadingNames[i])

\* a message with two values under Message-ID and a Google header has been
\* through the loop body
ThreadingPreservedCase ==
  /\ Passed
  /\ Cardinality(ValuesUnder(before[1], NameMessageID)) = 2
  /\ GoogleHeaders(before[1]) # <<>>
  /\ Len(After.headers) = Len(before[1].headers)

\* C2: after the second-pass loop body no header of the message has a name that
\* begins with 'X-Google-'.
NoGoogleHeader ==
  Passed => \A i \in DOMAIN After.headers : ~StartsWith(After.headers[i][1], GooglePrefix)

\* a message with two Google names, one of them also in another letter case,
\* has been through the loop body
NoGoogleHeaderCase ==
  /\ Passed
  /\ Cardinality(Range(GoogleHeaders(before[1]))) = 2
  /\ \E i \in DOMAIN before[1].headers :
       /\ ~StartsWith(before[1].headers[i][1], GooglePrefix)
       /\ StartsWith(Lower(before[1].headers[i][1]), Lower(GooglePrefix))
  /\ After.headers = <<>>

\* whether a parsed block has a From header with an address and no Date header
SenderNoDate(msg) ==
  /\ ~Has(msg, NameDate)
  /\ Has(msg, NameFrom)
  /\ parseaddr(GetOr(msg, NameFrom, <<>>)) # <<>>

\* C3: the first pass, at a block that has a From header with an address and no
\* Date header, goes on to the next block without an error, with the address
\* of the From header and 'Thu Jan 1 00:00:00 1970' in the envelope line.
MissingDateNotFatal ==
  [][(/\ pc = "first_pass"
      /\ messages # <<>>
      /\ Strip(Head(messages)) # <<>>
      /\ SenderNoDate(message_from_string(Head(messages))))
     => (/\ pc' = "first_pass"
         /\ error' = "none"
         /\ env_date' = EpochString
         /\ from_addr' = parseaddr(GetOr(message_from_string(Head(messages)), NameFrom, <<>>)))]_vars

\* C4: when fix_dates_in_mbox has returned or raised, the temporary file is
\* deleted.
TempDeleted == pc \in {"done", "raised"} => temp = None

\* the match of the second or of the third pattern of lines 50-54 when it is the
\* first of the patterns that matches s, None otherwise
AmbiguousMatch(s) ==
  IF ReSearch(patterns[1], s) # None THEN None
  ELSE IF ReSearch(patterns[2], s) # None THEN ReSearch(patterns[2], s)
  ELSE ReSearch(patterns[3], s)
\* midnight UTC of January 1 of the year y
YearStart(y) ==
  Some([year |-> y, month |-> 1, day |-> 1, hour |-> 0, minute |-> 0, second |-> 0,
        tz |-> UTC])

\* C5: for a date text on which parse_date returns None and whose first matching
\* pattern is the second or the third, fix_date returns midnight UTC of January 1
\* of the year the pattern captured.
DegradesToYear ==
  (/\ pc # "fix_date"
   /\ date_str # None
   /\ parse_date(date_str) = Return(None)
   /\ AmbiguousMatch(date_str[1]) # None)
  => (/\ pc = "returned"
      /\ date = YearStart(DigitsVal(AmbiguousMatch(date_str[1])[1].groups[3])))

\* whether a line (without its newline) is 'From ', an optional minus sign and
\* one or more digits; number is what follows 'From '
SignedDigits(number) ==
  /\ number # <<>>
  /\ IF number[1] = "-"
     THEN Len(number) > 1 /\ AllIn(Tail(number), Digit)
     ELSE AllIn(number, Digit)
MarkerLine(l) ==
  StartsWith(l, FromSpace) /\ SignedDigits(Sub(l, Len(FromSpace) + 1, Len(l)))
\* the lines of a text that are marker lines
MarkersAmong(lines) == {i \in DOMAIN lines : MarkerLine(lines[i])}
MarkerLines(text) == MarkersAmong(SplitOn(text, "\n"))
\* the blocks the split keeps: those written and those still to come
Kept == blocks \o SelectSeq(messages, LAMBDA b : Strip(b) # <<>>)

\* C6: every block the split keeps is non-empty after trimming and has no
\* marker line, and of 'From 12345\nA\n\nFrom -67890\nB\n' two blocks are kept.
KeptBlocksClean ==
  /\ \A i \in DOMAIN Kept : Strip(Kept[i]) # <<>> /\ MarkerLines(Kept[i]) = {}
  /\ (content = SplitExample /\ pc \notin {"start", "split"}) => Len(Kept) = 2

\* whether fix_date returns a timestamp for the Date header of a block
Dated(r) == r.exc = "none" /\ r.val # None
DatedBlock(block) == Dated(fix_date(Get(message_from_string(block), NameDate)))

\* C7: when fix_dates_in_mbox completes, total is the number of blocks kept and
\* fixed_dates the number of them for whose Date header fix_date returns a
\* timestamp.
CountersMatchBlocks ==
  pc = "done" =>
    /\ total = Len(blocks)
    /\ fixed_dates = Cardinality({i \in DOMAIN blocks : DatedBlock(blocks[i])})

\* whether a Date header is there and not empty while neither parse_date nor the
\* patterns give a timestamp
Unparseable(ds) ==
  /\ ds # None
  /\ ds[1] # <<>>
  /\ parse_date(ds).val = None
  /\ RecoverFrom(ds[1], patterns) = None

\* C8: the first pass, at a block whose Date header is not empty and gives no
\* timestamp, goes on without an error, with 'Thu Jan 1 00:00:00 1970' as the
\* date of the envelope line.
UnparseableDateNotFatal ==
  [][(/\ pc = "first_pass"
      /\ messages # <<>>
      /\ Strip(Head(messages)) # <<>>
      /\ Unparseable(Get(message_from_string(Head(messages)), NameDate)))
     => (/\ pc' = "first_pass"
         /\ error' = "none"
         /\ env_date' = EpochString)]_vars

\* C9: once counted, fixed_from_lines is the number of marker lines of the
\* input.
MarkersCounted == pc # "start" => fixed_from_lines = Cardinality(MarkerLines(content))

\* the headers of a message that are neither Date nor Google headers
Frame(msg) ==
  SelectSeq(msg.headers,
            LAMBDA h : Lower(h[1]) # Lower(NameDate) /\ ~StartsWith(h[1], GooglePrefix))

\* C10: the second-pass loop body leaves the headers that are neither Date nor
\* 'X-Google-' headers as they are, in number, values and order, and leaves the
\* body as it is.
OnlyDateAndGoogleChange ==
  Passed => Frame(After) = Frame(before[1]) /\ After.body = before[1].body

====
